---- MODULE Spec2Model ----
(***************************************************************************)
(* Model of the PSX market-data client (src/src/services/psxService.ts):   *)
(* the time-series normalizer (parseJSONChartData and its helpers), the    *)
(* aggregation policy tables, the synthetic series generator and the       *)
(* sequential multi-proxy fetch loops, the snapshot parser with the market *)
(* summary, and the detail view (src/src/components/StockDetail.tsx with   *)
(* the StockChart of src/unnamed/part_001).                                *)
(*                                                                         *)
(* Numbers.  Timestamps are integers in milliseconds (raw tuples carry     *)
(* seconds), taken around the epoch so that they fit TLC's integers.       *)
(* Prices and raw numeric fields are fixed-point integers in thousandths   *)
(* (10.5 is 10500); volumes of chart points are whole units.               *)
(***************************************************************************)
EXTENDS Integers, Sequences, FiniteSets, TLC

VARIABLES
    pc,             \* position of the normalizer run: "ready" | "done"
    jsonData,       \* the payload handed to parseJSONChartData
    interval,       \* the single active granularity of the query
    tz,             \* host time zone offset in minutes (Date#getMinutes is local)
    fpTieAway,      \* how toFixed(2) resolves a value that is an exact decimal tie
    seed,           \* the stream Math.random() yields in this run
    chartData,      \* parseJSONChartData: chartData after forEach and sort
    aggregatedData, \* value returned by aggregateDataByInterval
    result,         \* value returned by parseJSONChartData
    usedMock,       \* TRUE when parseJSONChartData returned generateMockChartData
    round,          \* 0 for the first normalization, 1 once its output is fed back
    previous,       \* the output that was fed back
    fkind,          \* the fetch call: "market" (fetchMarketData) | "series" (fetchStockTimeSeries)
    fpc,            \* its position: "loop" | "awaitFetch" | "awaitBody" | "done"
    fi,             \* the loop index i into CORS_PROXIES (0-based)
    inflight,       \* proxy indices with a request not yet settled
    contacted,      \* history: the proxy indices contacted, in order
    outcomes,       \* history: per attempt "pending" | "failed" | "ok"
    returned,       \* what the call resolved or rejected with
    html,           \* the document handed to parseHTMLData: a sequence of rows
    stocks,         \* the quote list parseHTMLData or getMockData returned
    summary,        \* value returned by calculateMarketSummary
    ppc,            \* position of the snapshot run: "ready" | "parsed" | "summarized"
    chartInterval,  \* StockDetail state: the interval the series is requested for
    selectedInterval, \* StockChart state: the interval highlighted, "unmounted" if none
    stockData,      \* StockDetail state: the series held (null until the first arrives)
    loading,        \* StockDetail state: the page spinner replaces the view
    chartLoading,   \* StockDetail state: the chart spinner replaces StockChart
    error,          \* StockDetail state: TRUE when an error message is set
    pending,        \* fetchStockTimeSeries calls of the view not yet resolved
    found,          \* whether marketData holds the symbol of the view
    clicks,         \* history: interval buttons pressed so far
    vpc             \* position of the view: "none" | "mounting" | "mounted"

normVars == <<pc, jsonData, chartData, aggregatedData, result, usedMock, round, previous>>
envVars == <<interval, tz, fpTieAway, seed>>
fetchVars == <<fkind, fpc, fi, inflight, contacted, outcomes, returned>>
parserVars == <<html, stocks, summary, ppc>>
viewVars == <<chartInterval, selectedInterval, stockData, loading, chartLoading, error,
              pending, found, clicks, vpc>>
vars == <<normVars, envVars, fetchVars, parserVars, viewVars>>

----------------------------------------------------------------------------
(* Bounds of the model *)

MaxLen == 3         \* longest enumerated raw data array
MaxExtra == 2       \* generated long inputs hold up to cap + MaxExtra buckets
MaxSeed == 1        \* random streams 0..MaxSeed

----------------------------------------------------------------------------
(* Generic helpers *)

RECURSIVE SumRange(_, _, _)
\* s[lo] + ... + s[hi]: Array#reduce((sum, x) => sum + x, 0) over a slice
SumRange(s, lo, hi) ==
    IF lo > hi THEN 0
    ELSE IF lo = hi THEN s[lo]
    ELSE LET mid == (lo + hi) \div 2
         IN  SumRange(s, lo, mid) + SumRange(s, mid + 1, hi)

SumSeq(s) == SumRange(s, 1, Len(s))

Abs(x) == IF x < 0 THEN -x ELSE x

MinOf(S) == CHOOSE t \in S : \A u \in S : t <= u

Indices(s) == [i \in 1..Len(s) |-> i]

SortOmitted(s) == s

SortByTimestampUnstable(s) ==
    LET n == Len(s)
        rank == << >> \o [i \in 1..n |->
                   1 + Cardinality({j \in 1..n :
                         \/ s[j].timestamp < s[i].timestamp
                         \/ s[j].timestamp = s[i].timestamp /\ j > i})]
        inv == << >> \o [k \in 1..n |-> CHOOSE i \in 1..n : rank[i] = k]
    IN  << >> \o [k \in 1..n |-> s[inv[k]]]

\* Array#sort((a, b) => a.timestamp - b.timestamp): the stable ascending sort
SortByTimestamp(s) ==
    LET n == Len(s)
        rank == << >> \o [i \in 1..n |->
                   1 + Cardinality({j \in 1..n :
                         \/ s[j].timestamp < s[i].timestamp
                         \/ s[j].timestamp = s[i].timestamp /\ j < i})]
        inv == << >> \o [k \in 1..n |-> CHOOSE i \in 1..n : rank[i] = k]
    IN  << >> \o [k \in 1..n |-> s[inv[k]]]

SliceFirst(s, limit) ==
    IF Len(s) <= limit THEN s ELSE SubSeq(s, 1, limit)

\* Array#slice(-limit): the last min(limit, length) elements
SliceLast(s, limit) ==
    IF Len(s) <= limit THEN s ELSE SubSeq(s, Len(s) - limit + 1, Len(s))

----------------------------------------------------------------------------
(* JavaScript values of raw fields.  A field is a number or numeric string *)
(* (k = "num", n its value), JSON null (k = "null"), a non-numeric string   *)
(* (k = "str") or undefined (k = "undefined").                             *)

Num(n) == [k |-> "num", n |-> n]
Garbage == [k |-> "str", n |-> 0]
Null == [k |-> "null", n |-> 0]
Undefined == [k |-> "undefined", n |-> 0]

\* item[idx] (0-based) of an array: undefined past its end
Field(item, idx) == IF idx < Len(item.f) THEN item.f[idx + 1] ELSE Undefined

NaN == [nan |-> TRUE, n |-> 0]
Number(n) == [nan |-> FALSE, n |-> n]

\* parseFloat(x): the numeric value, NaN when x does not start with a number
parseFloat(f) == IF f.k = "num" THEN Number(f.n) ELSE NaN

\* parseInt(x): the integer part (truncated toward zero) of a field given in
\* thousandths, NaN when x does not start with a number
parseInt(f) ==
    IF f.k = "num"
    THEN Number(IF f.n >= 0 THEN f.n \div 1000 ELSE -((-f.n) \div 1000))
    ELSE NaN

\* v || 0 on a number: NaN and 0 are falsy
OrZero(v) == IF v.nan THEN 0 ELSE v.n

TimesThousandOmitted(f) ==
    CASE f.k = "num" -> Number(f.n)
      [] f.k = "null" -> Number(0)
      [] OTHER -> NaN

\* timestamp * 1000 (ToNumber of the field, seconds to milliseconds)
TimesThousand(f) ==
    CASE f.k = "num" -> Number(f.n * 1000)
      [] f.k = "null" -> Number(0)
      [] OTHER -> NaN

\* Date#toISOString(): the UTC rendering of the instant, to the millisecond
toISOString(ms) == [iso |-> "datetime", v |-> ms]

\* Date#toISOString().split('T')[0]: the UTC calendar date of the instant
toISODate(ms) == [iso |-> "date", v |-> ms \div 86400000]

----------------------------------------------------------------------------
(* Aggregation policy *)

Intervals == {"1min", "5min", "15min", "30min", "1hour", "1day"}

getDataLimitForInterval(iv) ==
    CASE iv = "1min" -> 390
      [] iv = "5min" -> 390
      [] iv = "15min" -> 390
      [] iv = "30min" -> 390
      [] iv = "1hour" -> 390
      [] iv = "1day" -> 30
      [] OTHER -> 390

getIntervalMinutesDrifted(iv) ==
    CASE iv = "1min" -> 1
      [] iv = "5min" -> 5
      [] iv = "15min" -> 15
      [] iv = "30min" -> 30
      [] iv = "1hour" -> 30
      [] iv = "1day" -> 1440
      [] OTHER -> 1

getIntervalMinutes(iv) ==
    CASE iv = "1min" -> 1
      [] iv = "5min" -> 5
      [] iv = "15min" -> 15
      [] iv = "30min" -> 30
      [] iv = "1hour" -> 60
      [] iv = "1day" -> 1440
      [] OTHER -> 1

getIntervalKeyLocalDate(timestamp, iv, intervalMinutes, off) ==
    IF iv = "1day"
    THEN toISODate(timestamp + off * 60000)
    ELSE LET local == timestamp + off * 60000
             minutes == (local \div 60000) % 60
             roundedMinutes == (minutes \div intervalMinutes) * intervalMinutes
             set == (local \div 3600000) * 3600000 + roundedMinutes * 60000
         IN  toISOString(set - off * 60000)

\* The host has the fixed offset off (minutes): getMinutes reads local time,
\* setMinutes(rounded, 0, 0) writes it, toISOString renders the instant in UTC.
getIntervalKey(timestamp, iv, intervalMinutes, off) ==
    IF iv = "1day"
    THEN toISODate(timestamp)
    ELSE LET local == timestamp + off * 60000
             minutes == (local \div 60000) % 60
             roundedMinutes == (minutes \div intervalMinutes) * intervalMinutes
             set == (local \div 3600000) * 3600000 + roundedMinutes * 60000
         IN  toISOString(set - off * 60000)

----------------------------------------------------------------------------
(* Time-series normalizer *)

toFixed2Truncating(sum, len, tieAway) ==
    LET d == 10 * len
        mag == (Abs(sum) \div d) * 10
    IN  IF sum < 0 THEN -mag ELSE mag

\* parseFloat((sum / len).toFixed(2)) for a sum of prices in thousandths: the
\* mean rounded to a multiple of 0.01.  A mean that is an exact decimal tie
\* (x.xx5) is rounded by the binary value the division produced, which may
\* lie on either side of it: tieAway says which.
toFixed2(sum, len, tieAway) ==
    LET d == 10 * len
        a == Abs(sum)
        q == a \div d
        r == a % d
        up == 2 * r > d \/ (2 * r = d /\ tieAway)
        mag == (IF up THEN q + 1 ELSE q) * 10
    IN  IF sum < 0 THEN -mag ELSE mag

\* One entry of aggregatedMap reduced to a chart point (the second forEach).
\* members are the indices, in chartData order, of the points put under the key.
ReduceBucketFirstVolume(cd, members, iv, tieAway) ==
    LET prices == << >> \o [k \in 1..Len(members) |-> cd[members[k]].price]
        timestamp == MinOf({cd[members[k]].timestamp : k \in 1..Len(members)})
    IN  [date |-> IF iv = "1day" THEN toISODate(timestamp) ELSE toISOString(timestamp),
         price |-> toFixed2(SumSeq(prices), Len(prices), tieAway),
         volume |-> cd[members[1]].volume,
         timestamp |-> timestamp]

ReduceBucketAligned(cd, members, iv, tieAway) ==
    LET prices == << >> \o [k \in 1..Len(members) |-> cd[members[k]].price]
        volumes == << >> \o [k \in 1..Len(members) |-> cd[members[k]].volume]
        earliest == MinOf({cd[members[k]].timestamp : k \in 1..Len(members)})
        timestamp == IF iv = "1day" THEN (earliest \div 86400000) * 86400000
                     ELSE (earliest \div 60000) * 60000
    IN  [date |-> IF iv = "1day" THEN toISODate(timestamp) ELSE toISOString(timestamp),
         price |-> toFixed2(SumSeq(prices), Len(prices), tieAway),
         volume |-> SumSeq(volumes),
         timestamp |-> timestamp]

ReduceBucketLatest(cd, members, iv, tieAway) ==
    LET prices == << >> \o [k \in 1..Len(members) |-> cd[members[k]].price]
        volumes == << >> \o [k \in 1..Len(members) |-> cd[members[k]].volume]
        timestamp == -MinOf({-cd[members[k]].timestamp : k \in 1..Len(members)})
    IN  [date |-> IF iv = "1day" THEN toISODate(timestamp) ELSE toISOString(timestamp),
         price |-> toFixed2(SumSeq(prices), Len(prices), tieAway),
         volume |-> SumSeq(volumes),
         timestamp |-> timestamp]

ReduceBucket(cd, members, iv, tieAway) ==
    LET prices == << >> \o [k \in 1..Len(members) |-> cd[members[k]].price]
        volumes == << >> \o [k \in 1..Len(members) |-> cd[members[k]].volume]
        \* starts as the first point's timestamp and is lowered by every
        \* smaller one: the minimum over the bucket
        timestamp == MinOf({cd[members[k]].timestamp : k \in 1..Len(members)})
    IN  [date |-> IF iv = "1day" THEN toISODate(timestamp) ELSE toISOString(timestamp),
         price |-> toFixed2(SumSeq(prices), Len(prices), tieAway),
         volume |-> SumSeq(volumes),
         timestamp |-> timestamp]

\* The keys of a point sequence, by position
KeysOf(cd, iv, off) ==
    << >> \o [i \in 1..Len(cd) |->
                getIntervalKey(cd[i].timestamp, iv, getIntervalMinutes(iv), off)]

BucketsPerPoint(cd, iv, off) == << >> \o [b \in 1..Len(cd) |-> <<b>>]

\* aggregatedMap in insertion order: a Map iterates its keys in the order of
\* their first set(), i.e. of the first point carrying each key.
Buckets(cd, iv, off) ==
    LET keys == KeysOf(cd, iv, off)
        firsts == SelectSeq(Indices(cd), LAMBDA i : \A j \in 1..(i - 1) : keys[j] # keys[i])
    IN  << >> \o [b \in 1..Len(firsts) |->
                    SelectSeq(Indices(cd), LAMBDA i : keys[i] = keys[firsts[b]])]

\* Lines 197-247: the points are put under their keys, every key is reduced
\* to one point, and the points are sorted.
AggregateBuckets(cd, iv, off, tieAway) ==
    LET buckets == Buckets(cd, iv, off)
    IN  SortByTimestamp(<< >> \o [b \in 1..Len(buckets) |->
                                    ReduceBucket(cd, buckets[b], iv, tieAway)])

\* For '1min' the raw data is returned (lines 192-195)
aggregateDataByInterval(cd, iv, off, tieAway) ==
    IF iv = "1min" THEN cd ELSE AggregateBuckets(cd, iv, off, tieAway)

AcceptsTwoFields(item) == item.arr /\ Len(item.f) >= 2

\* The guard of the first forEach: Array.isArray(item) && item.length >= 3
Accepts(item) == item.arr /\ Len(item.f) >= 3

\* The point pushed for an accepted item whose timestamp is a valid time
PointOf(item, iv) ==
    LET timestamp == TimesThousand(Field(item, 0)).n
    IN  [date |-> IF iv = "1day" THEN toISODate(timestamp) ELSE toISOString(timestamp),
         price |-> OrZero(parseFloat(Field(item, 1))),
         volume |-> OrZero(parseInt(Field(item, 2))),
         timestamp |-> timestamp]

\* new Date(NaN).toISOString() throws RangeError: the forEach is abandoned at the
\* first accepted item whose timestamp is not a number
ForEachThrows(data) ==
    \E i \in 1..Len(data) : Accepts(data[i]) /\ TimesThousand(Field(data[i], 0)).nan

ShapeOkAnyStatus(json) == ~json.isNull /\ json.dataIsArray

ShapeOkNonEmpty(json) ==
    ~json.isNull /\ json.status = 1 /\ json.dataIsArray /\ Len(json.data) > 0

\* jsonData && jsonData.status === 1 && jsonData.data && Array.isArray(jsonData.data)
ShapeOk(json) == ~json.isNull /\ json.status = 1 /\ json.dataIsArray

\* chartData after the forEach and the sort (lines 137-162)
SortedPoints(json, iv) ==
    LET accepted == SelectSeq(json.data, Accepts)
    IN  SortByTimestamp(<< >> \o [k \in 1..Len(accepted) |-> PointOf(accepted[k], iv)])

TruncateOneTooMany(agg, iv) == SliceLast(agg, getDataLimitForInterval(iv) + 1)

\* Array#slice(-dataLimit) of the aggregated points (lines 168-169)
Truncate(agg, iv) == SliceLast(agg, getDataLimitForInterval(iv))

----------------------------------------------------------------------------
(* Synthetic series *)

\* new Date() at the call: 1970-01-12T13:46:40.123Z
Now == 1000000123

\* The j-th value Math.random() yields in stream s, as a numerator over 1000
Random(s, j) == ((s + 1) * 389 + j * 617) % 1000

\* t - count * unit, subtracted in two halves so that no intermediate value
\* leaves TLC's 32-bit integers
Before(t, count, unit) == (t - (count \div 2) * unit) - (count - (count \div 2)) * unit

\* generateMockChartData: dataPoints + 1 points (i runs from dataPoints down to
\* 0), one interval width apart and ending now, on a host with a fixed offset.
\* price is the random walk's value, here 100.00 plus or minus at most 0.45
\* (every step is within the 1.5 % the code allows), to 2 decimals.
generateMockChartData(iv, s) ==
    LET dataPoints == getDataLimitForInterval(iv)
        intervalMinutes == getIntervalMinutes(iv)
    IN  << >> \o [k \in 1..(dataPoints + 1) |->
          LET i == dataPoints - (k - 1)
              timestamp == IF iv = "1day"
                           THEN Before(Now, i, 86400000)
                           ELSE Before(Now, i, intervalMinutes * 60000)
          IN  [date |-> IF iv = "1day" THEN toISODate(timestamp) ELSE toISOString(timestamp),
               price |-> 100000 + ((Random(s, 2 * k) \div 10) - 45) * 10,
               volume |-> (Random(s, 2 * k + 1) * 1000000) \div 1000,
               timestamp |-> timestamp]]

----------------------------------------------------------------------------
(* parseJSONChartData *)

\* TRUE when the try block returns (lines 136-170); otherwise the function
\* falls through to generateMockChartData (line 176)
ParsesNormally(json) == ShapeOk(json) /\ ~ForEachThrows(json.data)

parseJSONChartData(json, iv, off, tieAway, s) ==
    IF ParsesNormally(json)
    THEN Truncate(aggregateDataByInterval(SortedPoints(json, iv), iv, off, tieAway), iv)
    ELSE generateMockChartData(iv, s)

----------------------------------------------------------------------------
(* Inputs *)

NotATuple == [arr |-> FALSE, f |-> << >>]
Tuple(f) == [arr |-> TRUE, f |-> f]

\* Raw entries of a data array: timestamp in seconds, price and volume in
\* thousandths.  An entry that is not an array, a tuple of 2 fields, a tuple of
\* 4, an unparseable price, a fractional and an unparseable volume, a negative
\* volume before the epoch, two tuples sharing a timestamp, and two tuples 12
\* hours apart within one UTC day (prices 10 and 12, volumes 100 and 50).
RawItems ==
    { NotATuple,
      Tuple(<<Num(0), Num(10000)>>),
      Tuple(<<Num(0), Num(10000), Num(100000)>>),
      Tuple(<<Num(120), Num(10010), Num(50000), Num(1)>>),
      Tuple(<<Num(2000), Garbage, Num(12700)>>),
      Tuple(<<Num(43200), Num(12000), Num(50000)>>),
      Tuple(<<Num(-60), Num(10004), Num(-5000)>>),
      Tuple(<<Num(0), Num(9990), Garbage>>) }

SeqsUpTo(S, n) == UNION {[1..m -> S] : m \in 0..n}

Payload(data) == [isNull |-> FALSE, status |-> 1, dataIsArray |-> TRUE, data |-> data]

\* A long feed: buckets * perKey tuples, perKey of them 30 s apart in every
\* bucket of the granularity, centred on the epoch, oldest or newest first.
LongData(iv, buckets, perKey, newestFirst) ==
    LET n == buckets * perKey
        step == getIntervalMinutes(iv) * 60
        first == -((buckets \div 2) * step)
    IN  << >> \o [k \in 1..n |->
          LET j == IF newestFirst THEN n - k ELSE k - 1
          IN  Tuple(<<Num(first + (j \div perKey) * step + (j % perKey) * 30),
                      Num(10000 + (j % 7) * 15),
                      Num((1 + (j % 5)) * 1000)>>)]

TzOffsets == {0, 330}

\* The raw tuples (seconds, price, volume) of a point sequence
ToRaw(points) ==
    << >> \o [k \in 1..Len(points) |->
                Tuple(<<Num(points[k].timestamp \div 1000), Num(points[k].price),
                        Num(points[k].volume * 1000)>>)]

----------------------------------------------------------------------------
(* The normalizer as a state machine: a payload is normalized, and its output
   may be fed back as a payload and normalized again. *)

NoPoints == << >>

NoReturn == [kind |-> "none", from |-> -1, synthetic |-> FALSE, data |-> << >>]

\* No fetch call is running
FetchIdle ==
    /\ fkind = "none"
    /\ fpc = "done"
    /\ fi = 0
    /\ inflight = {}
    /\ contacted = << >>
    /\ outcomes = << >>
    /\ returned = NoReturn

NoSummary == [totalStocks |-> 0, gainers |-> 0, losers |-> 0, unchanged |-> 0,
              totalVolume |-> [nan |-> FALSE, n |-> 0]]

\* No snapshot has been parsed
ParserIdle ==
    /\ html = << >>
    /\ stocks = << >>
    /\ summary = NoSummary
    /\ ppc = "idle"

NoStockData == [present |-> FALSE, interval |-> "1min", empty |-> TRUE]

\* No detail view is open
ViewIdle ==
    /\ chartInterval = "1min"
    /\ selectedInterval = "unmounted"
    /\ stockData = NoStockData
    /\ loading = FALSE
    /\ chartLoading = FALSE
    /\ error = FALSE
    /\ pending = {}
    /\ found = FALSE
    /\ clicks = 0
    /\ vpc = "none"

InitShort ==
    /\ jsonData \in {Payload(d) : d \in SeqsUpTo(RawItems, MaxLen)}
    /\ interval \in Intervals
    /\ tz \in TzOffsets
    /\ fpTieAway \in BOOLEAN

InitLong ==
    /\ interval \in Intervals
    /\ \E extra \in 0..MaxExtra, perKey \in 1..2, newestFirst \in BOOLEAN :
         jsonData = Payload(LongData(interval, getDataLimitForInterval(interval) + extra,
                                     perKey, newestFirst))
    /\ tz = 0
    /\ fpTieAway = TRUE

Init ==
    /\ pc = "ready"
    /\ round = 0
    /\ InitShort \/ InitLong
    /\ seed = 0
    /\ chartData = NoPoints
    /\ aggregatedData = NoPoints
    /\ result = NoPoints
    /\ previous = NoPoints
    /\ usedMock = FALSE
    /\ FetchIdle
    /\ ParserIdle
    /\ ViewIdle

\* One call of parseJSONChartData(jsonData, symbol, interval)
Normalize ==
    /\ pc = "ready"
    /\ pc' = "done"
    /\ IF ParsesNormally(jsonData)
       THEN LET cd == SortedPoints(jsonData, interval)
                agg == aggregateDataByInterval(cd, interval, tz, fpTieAway)
            IN  /\ chartData' = cd
                /\ aggregatedData' = agg
                /\ result' = Truncate(agg, interval)
                /\ usedMock' = FALSE
       ELSE /\ chartData' = NoPoints
            /\ aggregatedData' = NoPoints
            /\ result' = generateMockChartData(interval, seed)
            /\ usedMock' = TRUE
    /\ UNCHANGED <<jsonData, round, previous, envVars, parserVars, viewVars, fetchVars>>

\* The output is turned back into raw tuples and handed to the normalizer again
Renormalize ==
    /\ pc = "done"
    /\ round = 0
    /\ round' = 1
    /\ pc' = "ready"
    /\ previous' = result
    /\ jsonData' = Payload(ToRaw(result))
    /\ UNCHANGED <<chartData, aggregatedData, result, usedMock, envVars, parserVars, viewVars, fetchVars>>

Next == Normalize \/ Renormalize

Spec == Init /\ [][Next]_vars

----------------------------------------------------------------------------
(* Snapshot parser and mock quotes *)

\* getAttribute('data-order') || '0': a missing attribute reads as '0'
AttrOrZero(f) == IF f.k = "null" THEN Num(0) ELSE f

\* A row yields a quote when it has at least 10 cells and its first cell holds
\* both elements; reading cells[10] of a row of exactly 10 cells throws, and
\* the row's catch skips it.
RowYieldsQuote(row) == row.cells >= 10 /\ row.strong /\ row.a /\ row.cells > 10

QuoteOfStrictlyPositive(row) ==
    LET change == parseFloat(AttrOrZero(row.change))
    IN  [symbol |-> row.symbol,
         change |-> change,
         volume |-> parseInt(AttrOrZero(row.volume)),
         isPositive |-> ~change.nan /\ change.n > 0]

\* The record pushed for a row (lines 515-542); NaN >= 0 is false
QuoteOf(row) ==
    LET change == parseFloat(AttrOrZero(row.change))
    IN  [symbol |-> row.symbol,
         change |-> change,
         volume |-> parseInt(AttrOrZero(row.volume)),
         isPositive |-> ~change.nan /\ change.n >= 0]

\* A parser whose try block encloses the whole forEach: the first row that
\* throws ends the loop.
parseHTMLDataAbortsOnError(text) ==
    LET throws == {k \in 1..Len(text) :
                     text[k].cells = 10 /\ text[k].strong /\ text[k].a}
        upto == IF throws = {} THEN Len(text) ELSE MinOf(throws) - 1
        rows == SelectSeq(SubSeq(text, 1, upto), RowYieldsQuote)
    IN  << >> \o [k \in 1..Len(rows) |-> QuoteOf(rows[k])]

parseHTMLData(text) ==
    LET rows == SelectSeq(text, RowYieldsQuote)
    IN  << >> \o [k \in 1..Len(rows) |-> QuoteOf(rows[k])]

MockQuote(symbol, change, volume) ==
    [symbol |-> symbol, change |-> Number(change), volume |-> Number(volume),
     isPositive |-> change >= 0]

getMockData ==
    << MockQuote("DFSM", -680, 24127221), MockQuote("WTL", -20, 19758898),
       MockQuote("GGL", 1130, 16285249), MockQuote("BOP", -50, 14937494),
       MockQuote("AKBL", 610, 12818237) >>

\* stocks.reduce((sum, stock) => sum + stock.volume, 0): NaN once a volume is NaN
SumVolumes(quotes) ==
    IF \E k \in 1..Len(quotes) : quotes[k].volume.nan
    THEN NaN
    ELSE Number(SumSeq(<< >> \o [k \in 1..Len(quotes) |-> quotes[k].volume.n]))

\* Every comparison with NaN is false: a quote whose change is NaN is counted
\* by none of the three filters.
calculateMarketSummary(quotes) ==
    [totalStocks |-> Len(quotes),
     gainers |-> Cardinality({k \in 1..Len(quotes) :
                    ~quotes[k].change.nan /\ quotes[k].change.n > 0}),
     losers |-> Cardinality({k \in 1..Len(quotes) :
                    ~quotes[k].change.nan /\ quotes[k].change.n < 0}),
     unchanged |-> Cardinality({k \in 1..Len(quotes) :
                    ~quotes[k].change.nan /\ quotes[k].change.n = 0}),
     totalVolume |-> SumVolumes(quotes)]

----------------------------------------------------------------------------
(* fetchMarketData and fetchStockTimeSeries: the loop over CORS_PROXIES *)

CORS_PROXIES == <<"corsproxy.io", "cors-anywhere.herokuapp.com", "api.allorigins.win">>

Row(cells, strong, a, symbol, change, volume) ==
    [cells |-> cells, strong |-> strong, a |-> a, symbol |-> symbol,
     change |-> change, volume |-> volume]

\* Documents a source may answer with: no rows, rows that yield nothing (too few
\* cells, exactly 10 cells, no symbol element), one and two quote rows
Htmls ==
    { << >>,
      << Row(6, TRUE, TRUE, "HDR", Null, Null), Row(10, TRUE, TRUE, "TEN", Num(100), Num(5000)) >>,
      << Row(11, FALSE, TRUE, "NOS", Num(100), Num(5000)) >>,
      << Row(11, TRUE, TRUE, "AAA", Num(0), Num(7000)) >>,
      << Row(12, TRUE, TRUE, "BBB", Num(-250), Null), Row(3, TRUE, TRUE, "X", Null, Null),
         Row(11, TRUE, TRUE, "CCC", Garbage, Num(1000)) >> }

\* JSON bodies a source may answer with: null, a wrong status, data that is no
\* array, an empty array, only malformed tuples, a tuple with a non-numeric
\* timestamp followed by a usable one, and usable tuples
NullJson == [isNull |-> TRUE, status |-> 0, dataIsArray |-> FALSE, data |-> << >>]

Jsons ==
    { NullJson,
      [isNull |-> FALSE, status |-> 0, dataIsArray |-> TRUE,
       data |-> <<Tuple(<<Num(0), Num(10000), Num(100000)>>)>>],
      [isNull |-> FALSE, status |-> 1, dataIsArray |-> FALSE, data |-> << >>],
      Payload(<< >>),
      Payload(<<NotATuple, Tuple(<<Num(0), Num(10000)>>)>>),
      Payload(<<Tuple(<<Garbage, Num(10000), Num(100000)>>),
                Tuple(<<Num(0), Num(10000), Num(100000)>>)>>),
      Payload(<<Tuple(<<Num(120), Num(10010), Num(50000)>>),
                Tuple(<<Num(0), Num(10000), Num(100000)>>)>>) }

\* The catch block of the loop body (lines 43-51 and 91-97) for attempt i,
\* followed by the loop's i++: what the call does once attempt i has thrown.
\* fetchMarketData returns the mock quotes from the catch of the last proxy;
\* fetchStockTimeSeries only logs, and the loop goes on.
CatchRethrows(kind, i) ==
    [done |-> TRUE, i |-> i,
     ret |-> [kind |-> "rejected", from |-> i, synthetic |-> FALSE, data |-> << >>]]

CatchSkipsNext(kind, i) ==
    IF i + 2 < Len(CORS_PROXIES)
    THEN [done |-> FALSE, i |-> i + 2, ret |-> NoReturn]
    ELSE IF kind = "market"
         THEN [done |-> TRUE, i |-> i,
               ret |-> [kind |-> "mock", from |-> -1, synthetic |-> TRUE, data |-> getMockData]]
         ELSE [done |-> FALSE, i |-> Len(CORS_PROXIES), ret |-> NoReturn]

CatchRetriesSource(kind, i) ==
    IF kind = "market" /\ i = Len(CORS_PROXIES) - 1
    THEN [done |-> TRUE, i |-> i,
          ret |-> [kind |-> "mock", from |-> -1, synthetic |-> TRUE, data |-> getMockData]]
    ELSE [done |-> FALSE, i |-> IF i = 0 THEN 0 ELSE i + 1, ret |-> NoReturn]

CatchMocksAtOnce(kind, i) ==
    IF kind = "market"
    THEN [done |-> TRUE, i |-> i,
          ret |-> [kind |-> "mock", from |-> -1, synthetic |-> TRUE, data |-> getMockData]]
    ELSE [done |-> FALSE, i |-> i + 1, ret |-> NoReturn]

Catch(kind, i) ==
    IF kind = "market" /\ i = Len(CORS_PROXIES) - 1
    THEN [done |-> TRUE, i |-> i,
          ret |-> [kind |-> "mock", from |-> -1, synthetic |-> TRUE, data |-> getMockData]]
    ELSE [done |-> FALSE, i |-> i + 1, ret |-> NoReturn]

\* The value fetchStockTimeSeries returns from inside the loop (lines 77-90)
SeriesReturn(json, i, iv, off, tieAway, s) ==
    [kind |-> "parsed", from |-> i, synthetic |-> ~ParsesNormally(json),
     data |-> parseJSONChartData(json, iv, off, tieAway, s)]

FetchInit ==
    /\ pc = "done"
    /\ round = 1
    /\ jsonData = NullJson
    /\ chartData = NoPoints
    /\ aggregatedData = NoPoints
    /\ result = NoPoints
    /\ previous = NoPoints
    /\ usedMock = FALSE
    /\ interval \in Intervals
    /\ tz = 0
    /\ fpTieAway = TRUE
    /\ seed \in 0..MaxSeed
    /\ fkind \in {"market", "series"}
    /\ fpc = "loop"
    /\ fi = 0
    /\ inflight = {}
    /\ contacted = << >>
    /\ outcomes = << >>
    /\ returned = NoReturn
    /\ ParserIdle
    /\ ViewIdle

SetOutcome(o) == outcomes' = [outcomes EXCEPT ![Len(outcomes)] = o]

\* await fetch(proxyUrl, ...) of attempt fi is issued (lines 21 and 64)
StartAttempt ==
    /\ fpc = "loop"
    /\ fi < Len(CORS_PROXIES)
    /\ fpc' = "awaitFetch"
    /\ inflight' = inflight \cup {fi}
    /\ contacted' = Append(contacted, fi)
    /\ outcomes' = Append(outcomes, "pending")
    /\ UNCHANGED <<fkind, fi, returned, normVars, envVars, parserVars, viewVars>>

\* The attempt throws: control passes to the catch block
Throw ==
    LET c == Catch(fkind, fi)
    IN  /\ inflight' = inflight \ {fi}
        /\ SetOutcome("failed")
        /\ fi' = c.i
        /\ fpc' = IF c.done THEN "done" ELSE "loop"
        /\ returned' = c.ret
        /\ UNCHANGED <<fkind, contacted, normVars, envVars, stocks, summary, ppc, viewVars>>

\* fetch rejects: the source is unreachable, or AbortSignal.timeout(10000) fires
FetchRejects ==
    /\ fpc = "awaitFetch"
    /\ \E why \in {"network error", "timeout"} : Throw
    /\ UNCHANGED html

\* fetch resolves with a response whose ok is false (lines 30-32 and 73-75)
ResponseNotOk ==
    /\ fpc = "awaitFetch"
    /\ Throw
    /\ UNCHANGED html

\* fetch resolves with an OK response: its body is awaited (lines 34 and 77)
ResponseOk ==
    /\ fpc = "awaitFetch"
    /\ fpc' = "awaitBody"
    /\ UNCHANGED <<fkind, fi, inflight, contacted, outcomes, returned, normVars, envVars, parserVars, viewVars>>

\* response.text() / response.json() rejects: the body is cut, times out or,
\* for json(), is not JSON
BodyRejects ==
    /\ fpc = "awaitBody"
    /\ Throw
    /\ UNCHANGED html

\* response.text() resolves in fetchMarketData (lines 34-42)
HtmlArrives ==
    /\ fpc = "awaitBody"
    /\ fkind = "market"
    /\ \E text \in Htmls :
         LET parsedData == parseHTMLData(text)
         IN  /\ html' = text
             /\ IF Len(parsedData) > 0
                THEN /\ fpc' = "done"
                     /\ returned' = [kind |-> "parsed", from |-> fi, synthetic |-> FALSE,
                                     data |-> parsedData]
                     /\ inflight' = inflight \ {fi}
                     /\ SetOutcome("ok")
                     /\ UNCHANGED <<fkind, fi, contacted, normVars, envVars,
                                    stocks, summary, ppc, viewVars>>
                ELSE Throw

\* response.json() resolves in fetchStockTimeSeries (lines 77-90)
JsonArrives ==
    /\ fpc = "awaitBody"
    /\ fkind = "series"
    /\ \E json \in Jsons :
         /\ fpc' = "done"
         /\ returned' = SeriesReturn(json, fi, interval, tz, fpTieAway, seed)
         /\ jsonData' = json
         /\ inflight' = inflight \ {fi}
         /\ SetOutcome("ok")
         /\ UNCHANGED <<fkind, fi, contacted, envVars, parserVars, viewVars, pc, chartData, aggregatedData,
                        result, usedMock, round, previous>>

\* The loop ends without a return: the fallback after it (lines 54-55, 100-111)
LoopExhausted ==
    /\ fpc = "loop"
    /\ fi >= Len(CORS_PROXIES)
    /\ fpc' = "done"
    /\ returned' = [kind |-> "mock", from |-> -1, synthetic |-> TRUE,
                    data |-> IF fkind = "market" THEN getMockData
                             ELSE generateMockChartData(interval, seed)]
    /\ UNCHANGED <<fkind, fi, inflight, contacted, outcomes, normVars, envVars, parserVars, viewVars>>

FetchNext ==
    \/ StartAttempt
    \/ FetchRejects
    \/ ResponseNotOk
    \/ ResponseOk
    \/ BodyRejects
    \/ HtmlArrives
    \/ JsonArrives
    \/ LoopExhausted

FetchSpec == FetchInit /\ [][FetchNext]_vars

\* Every attempt settles (response, error, or AbortSignal.timeout(10000)) and
\* the runtime resumes the awaiting call: no enabled step is put off forever.
FetchFairSpec == FetchSpec /\ WF_vars(FetchNext)

----------------------------------------------------------------------------
(* The snapshot run: a document is parsed and its quotes are summarized *)
(* (App.tsx lines 22-24, without the network).                          *)

MaxRows == 3

\* Rows a document may hold: a row of 6 cells, a row of exactly 10 cells, rows
\* without the symbol or the company element, and quote rows of 11 or 12 cells
\* with a zero, a negative, a non-numeric and a positive change, and with a
\* missing and a non-numeric volume
ParserRows ==
    { Row(6, TRUE, TRUE, "HDR", Null, Null),
      Row(10, TRUE, TRUE, "TEN", Num(100), Num(5000)),
      Row(11, FALSE, TRUE, "NOS", Num(100), Num(5000)),
      Row(11, TRUE, FALSE, "NOA", Num(100), Num(5000)),
      Row(11, TRUE, TRUE, "AAA", Num(0), Num(7000)),
      Row(12, TRUE, TRUE, "BBB", Num(-250), Null),
      Row(11, TRUE, TRUE, "CCC", Garbage, Num(1000)),
      Row(11, TRUE, TRUE, "DDD", Num(1500), Garbage) }

ParserInit ==
    /\ pc = "done"
    /\ round = 1
    /\ jsonData = NullJson
    /\ chartData = NoPoints
    /\ aggregatedData = NoPoints
    /\ result = NoPoints
    /\ previous = NoPoints
    /\ usedMock = FALSE
    /\ interval = "1min"
    /\ tz = 0
    /\ fpTieAway = TRUE
    /\ seed = 0
    /\ FetchIdle
    /\ html \in SeqsUpTo(ParserRows, MaxRows)
    /\ stocks = << >>
    /\ summary = NoSummary
    /\ ppc = "ready"
    /\ ViewIdle

\* One call of parseHTMLData(html)
Parse ==
    /\ ppc = "ready"
    /\ ppc' = "parsed"
    /\ stocks' = parseHTMLData(html)
    /\ UNCHANGED <<html, summary, normVars, envVars, fetchVars, viewVars>>

\* One call of calculateMarketSummary(stocks)
Summarize ==
    /\ ppc = "parsed"
    /\ ppc' = "summarized"
    /\ summary' = calculateMarketSummary(stocks)
    /\ UNCHANGED <<html, stocks, normVars, envVars, fetchVars, viewVars>>

ParserNext == Parse \/ Summarize

ParserSpec == ParserInit /\ [][ParserNext]_vars

----------------------------------------------------------------------------
(* The detail view: StockDetail (src/src/components/StockDetail.tsx) and  *)
(* the StockChart it renders (src/unnamed/part_001).  A series is           *)
(* represented by the interval it was fetched for and by whether it is     *)
(* empty.                                                                  *)

MaxClicks == 3

ChartDisplayedWhileLoading(ld, cl, err, sd) == ~ld /\ ~err /\ sd.present /\ ~sd.empty

\* StockChart is rendered: not the page spinner (line 114), not the error
\* view (line 131), the series is not empty (line 274) and the chart spinner
\* is not in its place (lines 276-294)
ChartDisplayed(ld, cl, err, sd) == ~ld /\ ~err /\ sd.present /\ ~sd.empty /\ ~cl

\* useState<ChartTimeInterval>('1min') of StockChart: the state lives while
\* the component stays rendered and starts again at '1min' when it is
\* rendered anew
Remount(was, is, sel) ==
    IF ~is THEN "unmounted" ELSE IF was THEN sel ELSE "1min"

DetailInit ==
    /\ pc = "done"
    /\ round = 1
    /\ jsonData = NullJson
    /\ chartData = NoPoints
    /\ aggregatedData = NoPoints
    /\ result = NoPoints
    /\ previous = NoPoints
    /\ usedMock = FALSE
    /\ interval = "1min"
    /\ tz = 0
    /\ fpTieAway = TRUE
    /\ seed = 0
    /\ FetchIdle
    /\ ParserIdle
    /\ chartInterval = "1min"
    /\ selectedInterval = "unmounted"
    /\ stockData = NoStockData
    /\ loading = TRUE
    /\ chartLoading = FALSE
    /\ error = FALSE
    /\ pending = {}
    /\ found \in BOOLEAN
    /\ clicks = 0
    /\ vpc = "mounting"

\* The effect of lines 51-83 after the first render: initialFetch() up to its
\* await, or through its catch and finally when the symbol is not in
\* marketData
MountEffect ==
    /\ vpc = "mounting"
    /\ vpc' = "mounted"
    /\ IF found
       THEN /\ loading' = TRUE
            /\ error' = FALSE
            /\ pending' = pending \cup {[by |-> "effect", interval |-> chartInterval]}
       ELSE /\ loading' = FALSE
            /\ error' = TRUE
            /\ pending' = pending
    /\ selectedInterval' = Remount(ChartDisplayed(loading, chartLoading, error, stockData),
                                   ChartDisplayed(loading', chartLoading, error', stockData),
                                   selectedInterval)
    /\ UNCHANGED <<chartInterval, stockData, chartLoading, found, clicks,
                   normVars, envVars, fetchVars, parserVars>>

\* An interval button of StockChart is pressed: StockChart.handleIntervalChange
\* (part_001 lines 26-29), StockDetail.handleIntervalChange (lines 85-88) with
\* fetchStockData up to its await (lines 21-34), the render that follows, and
\* the effect of lines 51-83 when chartInterval has changed.
Click(X) ==
    /\ vpc = "mounted"
    /\ ChartDisplayed(loading, chartLoading, error, stockData)
    /\ clicks < MaxClicks
    /\ clicks' = clicks + 1
    /\ chartInterval' = X
    /\ IF found
       THEN /\ chartLoading' = TRUE
            /\ error' = FALSE
            /\ loading' = IF X # chartInterval THEN TRUE ELSE loading
            /\ pending' = pending \cup {[by |-> "handler", interval |-> X]}
                            \cup (IF X # chartInterval
                                  THEN {[by |-> "effect", interval |-> X]} ELSE {})
       ELSE /\ chartLoading' = FALSE
            /\ error' = TRUE
            /\ loading' = FALSE
            /\ pending' = pending
    /\ selectedInterval' = Remount(TRUE,
                                   ChartDisplayed(loading', chartLoading', error', stockData),
                                   X)
    /\ UNCHANGED <<stockData, found, vpc, normVars, envVars, fetchVars, parserVars>>

\* The await of initialFetch resumes (lines 65-79): setStockData, then
\* setLoading(false) in the finally
ResolveEffect(f) ==
    /\ f \in pending
    /\ f.by = "effect"
    /\ pending' = pending \ {f}
    /\ \E empty \in BOOLEAN :
         stockData' = [present |-> TRUE, interval |-> f.interval, empty |-> empty]
    /\ loading' = FALSE
    /\ selectedInterval' = Remount(ChartDisplayed(loading, chartLoading, error, stockData),
                                   ChartDisplayed(loading', chartLoading, error, stockData'),
                                   selectedInterval)
    /\ UNCHANGED <<chartInterval, chartLoading, error, found, clicks, vpc,
                   normVars, envVars, fetchVars, parserVars>>

\* The await of fetchStockData resumes (lines 34-48): setStockData, then
\* setChartLoading(false) in the finally
ResolveHandler(f) ==
    /\ f \in pending
    /\ f.by = "handler"
    /\ pending' = pending \ {f}
    /\ \E empty \in BOOLEAN :
         stockData' = [present |-> TRUE, interval |-> f.interval, empty |-> empty]
    /\ chartLoading' = FALSE
    /\ selectedInterval' = Remount(ChartDisplayed(loading, chartLoading, error, stockData),
                                   ChartDisplayed(loading, chartLoading', error, stockData'),
                                   selectedInterval)
    /\ UNCHANGED <<chartInterval, loading, error, found, clicks, vpc,
                   normVars, envVars, fetchVars, parserVars>>

DetailNext ==
    \/ MountEffect
    \/ \E X \in Intervals : Click(X)
    \/ \E f \in pending : ResolveEffect(f)
    \/ \E f \in pending : ResolveHandler(f)

DetailSpec == DetailInit /\ [][DetailNext]_vars

----------------------------------------------------------------------------
(* Properties of the normalizer (specification Spec) *)

NonDecreasing(points) ==
    \A i \in 1..(Len(points) - 1) : points[i].timestamp <= points[i + 1].timestamp

\* The caps of the granularity table
TableCap(iv) == IF iv = "1day" THEN 30 ELSE 390

\* C1: for every granularity and every order of the raw points, the sequence
\* the normalizer returns is non-decreasing by timestamp.
C1_OutputNonDecreasing == pc = "done" => NonDecreasing(result)

\* C1 witness: a feed that arrived newest first was normalized to two or more
\* points.
C1_Witness ==
    /\ pc = "done"
    /\ round = 0
    /\ Len(result) >= 2
    /\ Len(jsonData.data) >= 2
    /\ Accepts(jsonData.data[1])
    /\ Accepts(jsonData.data[2])
    /\ jsonData.data[1].f[1].n > jsonData.data[2].f[1].n

\* C2: for every granularity and any input length the output is no longer than
\* the cap of the granularity: 390, and 30 for 1day.
C2_OutputWithinCap == pc = "done" => Len(result) <= TableCap(interval)

\* C2 witness: more points than the cap were reduced, and the oldest were cut.
C2_Witness ==
    /\ pc = "done"
    /\ Len(aggregatedData) > TableCap(interval)
    /\ Len(result) = TableCap(interval)

\* C3: normalizing the raw tuples of a normalized sequence at the same
\* granularity returns that sequence again: same timestamps, prices, volumes
\* and displayDates, same length and order.
C3_Idempotent == (pc = "done" /\ round = 1) => result = previous

\* C3 witness: a bucketed output of two or more points, one of them the
\* reduction of several raw points, has been normalized again.
C3_Witness ==
    /\ pc = "done"
    /\ round = 1
    /\ interval = "5min"
    /\ Len(previous) >= 2
    /\ Len(jsonData.data) = Len(previous)
    /\ \E k \in 1..Len(previous) : previous[k].volume = 150

\* The volumes of the valid input points whose bucket key is key
VolumesUnder(key) ==
    LET keys == KeysOf(chartData, interval, tz)
        members == SelectSeq(Indices(chartData), LAMBDA i : keys[i] = key)
    IN  << >> \o [k \in 1..Len(members) |-> chartData[members[k]].volume]

VolumesOf(points) == << >> \o [k \in 1..Len(points) |-> points[k].volume]

\* C4: at every bucketed granularity each reduced point's volume is the sum of
\* the volumes of exactly the valid input points under its key, and before
\* truncation the total output volume equals the total input volume.
C4_VolumeConserved ==
    (pc = "done" /\ interval # "1min") =>
        /\ \A k \in 1..Len(aggregatedData) :
             aggregatedData[k].volume =
               SumSeq(VolumesUnder(getIntervalKey(aggregatedData[k].timestamp, interval,
                                                  getIntervalMinutes(interval), tz)))
        /\ SumSeq(VolumesOf(aggregatedData)) = SumSeq(VolumesOf(chartData))

\* C4 witness: three valid points fell into two buckets, with non-zero volumes.
C4_Witness ==
    /\ pc = "done"
    /\ round = 0
    /\ interval = "1hour"
    /\ Len(chartData) = 3
    /\ Len(aggregatedData) = 2
    /\ \A k \in 1..3 : chartData[k].volume > 0

\* The entries of a data array that are tuples of at least 3 fields
IsTupleOfThree(item) == item.arr /\ Len(item.f) >= 3

\* C8: normalizing an empty sequence of raw points returns an empty sequence,
\* at every granularity; nothing is invented and nothing synthetic is put in.
C8_EmptyInEmptyOut ==
    (pc = "done" /\ jsonData = Payload(<< >>)) => (result = << >> /\ ~usedMock)

\* C8 witness: the payload {status: 1, data: []} has been normalized.
C8_Witness == pc = "done" /\ round = 0 /\ jsonData = Payload(<< >>) /\ interval = "1day"

\* C9: an entry that is not a tuple or has fewer than 3 fields contributes no
\* point; the output is that of the same input without such entries.
C9_ShortTuplesDropped ==
    (pc = "done" /\ round = 0) =>
        /\ Len(chartData) = Len(SelectSeq(jsonData.data, IsTupleOfThree))
        /\ result = parseJSONChartData(Payload(SelectSeq(jsonData.data, IsTupleOfThree)),
                                       interval, tz, fpTieAway, seed)

\* C9 witness: a payload holding a tuple of 2 fields between two valid tuples
\* has been normalized.
C9_Witness ==
    /\ pc = "done"
    /\ round = 0
    /\ Len(jsonData.data) = 3
    /\ IsTupleOfThree(jsonData.data[1])
    /\ jsonData.data[2].arr /\ Len(jsonData.data[2].f) = 2
    /\ IsTupleOfThree(jsonData.data[3])
    /\ Len(result) = 2

\* C10: every volume in the normalizer's output is an integer >= 0, whatever
\* the raw field values (negative and non-numeric ones included).
C10_VolumesNonNegative ==
    pc = "done" => \A k \in 1..Len(result) : result[k].volume \in Nat

----------------------------------------------------------------------------
(* Properties of the fetch calls (specification FetchSpec) *)

AllSourcesFailed ==
    /\ Len(outcomes) = Len(CORS_PROXIES)
    /\ \A j \in 1..Len(outcomes) : outcomes[j] = "failed"

\* C5: fetchMarketData and fetchStockTimeSeries never reject: whatever the
\* sources do, the call resolves with a value, and with synthetic data (the
\* mock quotes, a generated series of the requested granularity) when all
\* three sources have failed.
C5_NeverRejects ==
    /\ returned.kind # "rejected"
    /\ fpc = "done" =>
         /\ returned.kind \in {"parsed", "mock"}
         /\ AllSourcesFailed =>
              /\ returned.kind = "mock"
              /\ returned.data = IF fkind = "market" THEN getMockData
                                 ELSE generateMockChartData(interval, seed)

\* C5 witness: a time-series call has resolved after all three sources failed.
C5_Witness == fpc = "done" /\ fkind = "series" /\ AllSourcesFailed

\* C6: the sources are attempted in list order, one at a time; an attempt
\* starts only after the one before it failed; once an attempt has succeeded
\* no further source is contacted and the call returns that attempt's result.
C6_SequentialFirstSuccess ==
    /\ Cardinality(inflight) <= 1
    /\ \A j \in 1..Len(contacted) : contacted[j] = j - 1
    /\ \A j \in 1..(Len(contacted) - 1) : outcomes[j] = "failed"
    /\ (\E j \in 1..Len(outcomes) : outcomes[j] = "ok") =>
         /\ fpc = "done"
         /\ inflight = {}
         /\ returned.kind = "parsed"
         /\ returned.from = contacted[Len(contacted)]

\* C6 witness: the first source failed, the second succeeded and the call
\* returned without contacting the third.
C6_Witness ==
    /\ fpc = "done"
    /\ contacted = <<0, 1>>
    /\ outcomes = <<"failed", "ok">>
    /\ returned.from = 1

\* The real pipeline yielded no usable point: the body is well shaped and no
\* entry of its data array is a tuple of 3 fields
ZeroUsablePoints ==
    /\ returned.kind = "parsed"
    /\ ShapeOk(jsonData)
    /\ SelectSeq(jsonData.data, IsTupleOfThree) = << >>

\* C7: when the real pipeline yields zero usable points the series returned by
\* fetchStockTimeSeries is synthetic; its chartData is never empty.
C7_NeverEmptySeries ==
    (fpc = "done" /\ fkind = "series") =>
        /\ Len(returned.data) > 0
        /\ ZeroUsablePoints => returned.synthetic

----------------------------------------------------------------------------
(* Properties of bucketing (specification Spec) *)

\* The bucket widths of the granularity table, in minutes
TableWidth(iv) ==
    CASE iv = "1min" -> 1
      [] iv = "5min" -> 5
      [] iv = "15min" -> 15
      [] iv = "30min" -> 30
      [] iv = "1hour" -> 60
      [] iv = "1day" -> 1440

IntradayBucketed == {"5min", "15min", "30min", "1hour"}

\* The key the running normalization gives a timestamp
KeyNow(timestamp) == getIntervalKey(timestamp, interval, getIntervalMinutes(interval), tz)

\* C11: at 5min, 15min, 30min and 1hour two points are put in the same bucket
\* if and only if floor(timestampMillis / (w * 60000)) is the same for both,
\* for every timestamp and every time-zone offset of the host.
C11_KeyIsFlooredTimestamp ==
    (pc = "done" /\ interval \in IntradayBucketed) =>
        \A i, j \in 1..Len(chartData) :
            KeyNow(chartData[i].timestamp) = KeyNow(chartData[j].timestamp)
            <=> chartData[i].timestamp \div (TableWidth(interval) * 60000)
                = chartData[j].timestamp \div (TableWidth(interval) * 60000)

UtcDay(timestamp) == timestamp \div 86400000

\* C12: at 1day two points are put in the same bucket if and only if they fall
\* on the same UTC calendar date: there is one output point per date, carrying
\* that date; two points 12 hours apart within one UTC day with prices 10 and
\* 12 and volumes 100 and 50 give one point with price 11.00, volume 150 and
\* that date as displayDate.
C12_DailyBucketIsUtcDate ==
    (pc = "done" /\ interval = "1day") =>
        /\ Len(aggregatedData)
             = Cardinality({UtcDay(chartData[i].timestamp) : i \in 1..Len(chartData)})
        /\ \A i \in 1..Len(chartData) :
             \E k \in 1..Len(aggregatedData) :
                aggregatedData[k].date = [iso |-> "date", v |-> UtcDay(chartData[i].timestamp)]
        /\ (/\ Len(chartData) = 2
            /\ chartData[1].timestamp = 0 /\ chartData[2].timestamp = 43200000
            /\ chartData[1].price = 10000 /\ chartData[2].price = 12000
            /\ chartData[1].volume = 100 /\ chartData[2].volume = 50)
           => aggregatedData = << [date |-> [iso |-> "date", v |-> 0], price |-> 11000,
                                   volume |-> 150, timestamp |-> 0] >>

\* C12 witness: the two points of the example were normalized at 1day on a
\* host east of UTC, given newest first.
C12_Witness ==
    /\ pc = "done"
    /\ round = 0
    /\ interval = "1day"
    /\ tz = 330
    /\ jsonData = Payload(<<Tuple(<<Num(43200), Num(12000), Num(50000)>>),
                            Tuple(<<Num(0), Num(10000), Num(100000)>>)>>)
    /\ Len(chartData) = 2
    /\ chartData[1].price = 10000 /\ chartData[2].price = 12000
    /\ chartData[1].volume = 100 /\ chartData[2].volume = 50
    /\ Len(result) = 1

\* The prices of the valid input points whose bucket key is key
PricesUnder(key) ==
    LET keys == KeysOf(chartData, interval, tz)
        members == SelectSeq(Indices(chartData), LAMBDA i : keys[i] = key)
    IN  << >> \o [k \in 1..Len(members) |-> chartData[members[k]].price]

\* C13: at every bucketed granularity an output price is the arithmetic mean of
\* its bucket's prices rounded to 2 decimals: a multiple of 0.01 that differs
\* from the mean by at most 0.005, and exactly p when every price of the
\* bucket is the same 2-decimal value p.
C13_PriceIsRoundedMean ==
    (pc = "done" /\ interval # "1min") =>
        \A k \in 1..Len(aggregatedData) :
            LET prices == PricesUnder(KeyNow(aggregatedData[k].timestamp))
                n == Len(prices)
                price == aggregatedData[k].price
            IN  /\ n > 0
                /\ price % 10 = 0
                /\ Abs(price * n - SumSeq(prices)) <= 5 * n
                /\ (\A i \in 1..n : prices[i] = prices[1] /\ prices[i] % 10 = 0)
                      => price = prices[1]

\* C13 witness: a bucket of 10.004 and 10.01, whose mean 10.007 is no multiple
\* of 0.01, was reduced to 10.01.
C13_Witness ==
    /\ pc = "done"
    /\ round = 0
    /\ interval = "1hour"
    /\ Len(chartData) = 2
    /\ chartData[1].price = 10004 /\ chartData[2].price = 10010
    /\ Len(aggregatedData) = 1
    /\ aggregatedData[1].price = 10010

\* The claim's value-side coercions of a raw tuple, written from the claim:
\* seconds * 1000, the number a price holds or 0, the integer part of the
\* number a volume holds or 0.
ClaimPoint(item) ==
    [date |-> [iso |-> "datetime", v |-> item.f[1].n * 1000],
     price |-> IF item.f[2].k = "num" THEN item.f[2].n ELSE 0,
     volume |-> IF item.f[3].k = "num"
                THEN (IF item.f[3].n < 0 THEN -((-item.f[3].n) \div 1000)
                      ELSE item.f[3].n \div 1000)
                ELSE 0,
     timestamp |-> item.f[1].n * 1000]

\* C14: at 1min the output before truncation is the stable ascending sort by
\* timestamp of the valid input tuples: one point per valid tuple, its
\* timestamp the tuple's seconds * 1000, price and volume as coerced, nothing
\* merged or rounded, and equal timestamps in input order.
C14_OneMinutePassthrough ==
    (pc = "done" /\ interval = "1min" /\ round = 0) =>
        LET valid == SelectSeq(jsonData.data, IsTupleOfThree)
            n == Len(valid)
        IN  /\ Len(aggregatedData) = n
            /\ \A i \in 1..n :
                 aggregatedData[1 + Cardinality({j \in 1..n :
                        \/ valid[j].f[1].n < valid[i].f[1].n
                        \/ valid[j].f[1].n = valid[i].f[1].n /\ j < i})]
                   = ClaimPoint(valid[i])

\* C14 witness: three valid tuples given newest first, two of them sharing a
\* timestamp, were passed through at 1min.
C14_Witness ==
    /\ pc = "done"
    /\ round = 0
    /\ interval = "1min"
    /\ jsonData = Payload(<<Tuple(<<Num(120), Num(10010), Num(50000), Num(1)>>),
                            Tuple(<<Num(0), Num(9990), Garbage>>),
                            Tuple(<<Num(0), Num(10000), Num(100000)>>)>>)
    /\ Len(aggregatedData) = 3
    /\ aggregatedData[1].price = 9990 /\ aggregatedData[2].price = 10000
    /\ aggregatedData[3].timestamp = 120000

\* C15: the 1min output is the output of the bucketing path with buckets of
\* width 1 minute: the pass-through is no semantic difference.
C15_PassthroughIsWidthOneBucketing ==
    (pc = "done" /\ interval = "1min") =>
        aggregatedData = AggregateBuckets(chartData, "1min", tz, fpTieAway)

\* C15 as amended: the two agree when no two valid points lie in the same
\* minute and every price is a multiple of 0.01.
C15_PassthroughIsWidthOneBucketingWhenSparse ==
    (/\ pc = "done"
     /\ interval = "1min"
     /\ \A i, j \in 1..Len(chartData) :
          i # j => chartData[i].timestamp \div 60000 # chartData[j].timestamp \div 60000
     /\ \A i \in 1..Len(chartData) : chartData[i].price % 10 = 0)
    => aggregatedData = AggregateBuckets(chartData, "1min", tz, fpTieAway)

\* C15 witness: three valid points in three different minutes, one of them 20
\* seconds into its minute, with 2-decimal prices, were passed through at 1min.
C15_Witness ==
    /\ pc = "done"
    /\ round = 0
    /\ interval = "1min"
    /\ Len(chartData) = 3
    /\ chartData[1].timestamp = 0
    /\ chartData[2].timestamp = 120000
    /\ chartData[3].timestamp = 2000000
    /\ chartData[1].price = 10000
    /\ aggregatedData = chartData

\* C16: truncation keeps exactly the last min(N, L) elements of the
\* aggregated sequence, unchanged and in the same order.
C16_TruncationKeepsNewest ==
    (pc = "done" /\ ~usedMock) =>
        LET L == Len(aggregatedData)
            N == TableCap(interval)
            kept == IF L < N THEN L ELSE N
        IN  /\ Len(result) = kept
            /\ \A k \in 1..kept : result[k] = aggregatedData[L - kept + k]

\* C16 witness: two more buckets than the cap were aggregated at 1day, so the
\* two oldest were dropped.
C16_Witness ==
    /\ pc = "done"
    /\ interval = "1day"
    /\ Len(aggregatedData) = 32
    /\ Len(result) = 30
    /\ result[1] = aggregatedData[3]

\* C17: width and cap are a pure lookup of the granularity, 1min -> (1, 390),
\* 5min -> (5, 390), 15min -> (15, 390), 30min -> (30, 390), 1hour -> (60, 390),
\* 1day -> (1440, 30); the width that bucketed an output and the cap that
\* truncated it are those of the one granularity of the request.
C17_PolicyTable ==
    /\ \A iv \in Intervals :
         /\ getIntervalMinutes(iv) = TableWidth(iv)
         /\ getDataLimitForInterval(iv) = TableCap(iv)
    /\ (pc = "done" /\ ~usedMock) =>
         /\ Len(result) = IF Len(aggregatedData) < TableCap(interval)
                          THEN Len(aggregatedData) ELSE TableCap(interval)
         /\ (tz = 0 /\ interval # "1min") =>
               Len(aggregatedData)
                 = Cardinality({chartData[i].timestamp \div (TableWidth(interval) * 60000) :
                                  i \in 1..Len(chartData)})

\* C17 witness: at 1hour one bucket more than the cap, of two points each,
\* was aggregated and truncated to the cap.
C17_Witness ==
    /\ pc = "done"
    /\ interval = "1hour"
    /\ Len(chartData) = 782
    /\ Len(aggregatedData) = 391
    /\ Len(result) = 390

----------------------------------------------------------------------------
(* Properties of the fallback series and of malformed payloads *)
(* (specification FetchSpec)                                    *)

\* C18: the synthetic series has the shape of normalizer output: at most cap
\* points (390, or 30 for 1day), timestamps strictly ascending one width apart
\* (one day for 1day), displayDate date-only for 1day and a full ISO timestamp
\* otherwise; so every series fetchStockTimeSeries returns has at most cap
\* points.
C18_SyntheticWithinCap ==
    (fpc = "done" /\ fkind = "series") =>
        /\ Len(returned.data) <= TableCap(interval)
        /\ returned.synthetic =>
             /\ \A k \in 1..(Len(returned.data) - 1) :
                  returned.data[k + 1].timestamp - returned.data[k].timestamp
                    = TableWidth(interval) * 60000
             /\ \A k \in 1..Len(returned.data) :
                  returned.data[k].date.iso = IF interval = "1day" THEN "date" ELSE "datetime"

\* The payload shape the claims call usable: {status: 1, data: <array>}
WellShaped(json) == ~json.isNull /\ json.status = 1 /\ json.dataIsArray

\* C19: a payload that is not {status: 1, data: <array>} yields no point of its
\* own: the series returned for the request is the synthetic fallback of the
\* requested granularity.
C19_UnusableShapeFallsBack ==
    (fpc = "done" /\ fkind = "series" /\ returned.kind = "parsed" /\ ~WellShaped(jsonData)) =>
        /\ returned.synthetic
        /\ returned.data = generateMockChartData(interval, seed)

\* C19 witness: a body {status: 0, data: [one valid tuple]} was answered to a
\* 1day request, and the series returned is the synthetic one.
C19_Witness ==
    /\ fpc = "done"
    /\ fkind = "series"
    /\ returned.kind = "parsed"
    /\ ~jsonData.isNull
    /\ jsonData.status = 0
    /\ Len(jsonData.data) = 1
    /\ interval = "1day"
    /\ returned.synthetic

\* A tuple of at least 3 fields whose timestamp, price and volume are numeric
FullyNumeric(item) ==
    /\ IsTupleOfThree(item)
    /\ \A f \in 1..3 : item.f[f].k = "num"

\* C20: normalization returns a series for every payload, and in a well-shaped
\* payload a tuple with a non-numeric price, volume or timestamp degrades only
\* itself: every valid tuple of the payload still has its point (that of its
\* bucket) in the output.
C20_MalformedFieldIsLocal ==
    (fpc = "done" /\ fkind = "series" /\ returned.kind = "parsed" /\ WellShaped(jsonData)) =>
        \A i \in 1..Len(jsonData.data) :
            FullyNumeric(jsonData.data[i]) =>
                \E k \in 1..Len(returned.data) :
                    KeyNow(returned.data[k].timestamp)
                      = KeyNow(jsonData.data[i].f[1].n * 1000)

----------------------------------------------------------------------------
(* Properties of the snapshot parser and the market summary *)
(* (specification ParserSpec)                               *)

\* A row of the quote-row shape as the contract words it: at least 10 cells
\* and a first cell holding both the symbol and the company element
HasQuoteShape(row) == row.cells >= 10 /\ row.strong /\ row.a

\* C21: the parser emits exactly one quote, in document order, for each row
\* with at least 10 cells whose first cell holds both elements, rows of
\* exactly 10 cells included; other rows produce no record.
C21_OneQuotePerShapedRow ==
    (ppc # "ready") =>
        LET shaped == SelectSeq(html, HasQuoteShape)
        IN  /\ Len(stocks) = Len(shaped)
            /\ \A k \in 1..Len(stocks) : stocks[k].symbol = shaped[k].symbol

\* The records of a document taken row by row
RECURSIVE PerRow(_)
PerRow(doc) ==
    IF doc = << >> THEN << >> ELSE parseHTMLData(<<Head(doc)>>) \o PerRow(Tail(doc))

\* C22: the parser returns for every document; a row that does not match the
\* shape or whose parsing fails is skipped and leaves the records of the other
\* rows as they are: the result is the concatenation of the per-row results.
C22_RowsAreIndependent ==
    (ppc # "ready") =>
        /\ stocks = PerRow(html)
        /\ Len(stocks) <= Len(html)

\* C22 witness: a row whose parsing throws (exactly 10 cells), a quote row and
\* a short row were parsed; the quote row's record is the result.
C22_Witness ==
    /\ ppc = "parsed"
    /\ Len(html) = 3
    /\ html[1].symbol = "TEN"
    /\ html[2].symbol = "BBB"
    /\ html[3].symbol = "HDR"
    /\ Len(stocks) = 1
    /\ stocks[1].symbol = "BBB"

\* C24: for every quote the parser emits, isPositive is true if and only if
\* change >= 0; a quote with change = 0 has isPositive = true.
C24_IsPositiveIffNonNegative ==
    \A k \in 1..Len(stocks) :
        /\ stocks[k].isPositive <=> (~stocks[k].change.nan /\ stocks[k].change.n >= 0)
        /\ (~stocks[k].change.nan /\ stocks[k].change.n = 0) => stocks[k].isPositive

\* C24 witness: a quote with change 0 and a quote with a negative change were
\* emitted.
C24_Witness ==
    /\ ppc = "parsed"
    /\ Len(stocks) = 2
    /\ stocks[1].change = Number(0) /\ stocks[1].isPositive
    /\ stocks[2].change = Number(-250) /\ ~stocks[2].isPositive

\* C30: calculateMarketSummary partitions the quotes: gainers + losers +
\* unchanged = totalStocks = number of quotes, totalVolume is the sum of the
\* quotes' volumes, and a quote with change = 0 is counted as unchanged, not
\* as a gainer, although its isPositive is true.
C30_SummaryPartitions ==
    (ppc = "summarized") =>
        /\ summary.totalStocks = Len(stocks)
        /\ summary.gainers + summary.losers + summary.unchanged = summary.totalStocks
        /\ ~summary.totalVolume.nan
        /\ summary.totalVolume.n
             = SumSeq(<< >> \o [k \in 1..Len(stocks) |-> stocks[k].volume.n])
        /\ summary.unchanged
             >= Cardinality({k \in 1..Len(stocks) :
                              stocks[k].isPositive /\ stocks[k].change = Number(0)})

----------------------------------------------------------------------------
(* Properties of the fetch loops (specifications FetchSpec, FetchFairSpec) *)

\* C23: provided every attempt terminates, every call of fetchMarketData and
\* fetchStockTimeSeries eventually completes, after at most 3 attempts: each
\* of the 3 sources is tried at most once and none is retried.
C23_CompletesWithinThreeAttempts ==
    /\ <>(fpc = "done")
    /\ [](/\ Len(contacted) <= Len(CORS_PROXIES)
          /\ \A j, k \in 1..Len(contacted) : j # k => contacted[j] # contacted[k])

\* C23 witness: a call has completed after three attempts, one per source.
C23_Witness ==
    /\ fpc = "done"
    /\ fkind = "market"
    /\ contacted = <<0, 1, 2>>
    /\ outcomes = <<"failed", "failed", "ok">>

\* The last attempt's outcome after a step
LastOutcomeNext == outcomes'[Len(outcomes')]

\* C26: in fetchMarketData an OK response that parses to zero quotes is a
\* failed attempt: the next source is tried, and the mock quotes are returned
\* only after a failure on the last source; a non-empty parse result is
\* returned as it is, never mixed with or replaced by mock quotes.
C26_EmptyParseIsFailedAttempt ==
    /\ []((fkind = "market" /\ fpc = "done") =>
            /\ returned.kind = "mock" =>
                 (returned.data = getMockData /\ AllSourcesFailed)
            /\ returned.kind = "parsed" =>
                 /\ returned.data = parseHTMLData(html)
                 /\ Len(returned.data) > 0
                 /\ \A k \in 1..Len(returned.data), j \in 1..Len(getMockData) :
                      returned.data[k].symbol # getMockData[j].symbol)
    /\ [][(fkind = "market" /\ fpc = "awaitBody") =>
            /\ Len(parseHTMLData(html')) = 0 => LastOutcomeNext = "failed"
            /\ LastOutcomeNext = "failed" =>
                 IF fi < Len(CORS_PROXIES) - 1
                 THEN fpc' = "loop" /\ fi' = fi + 1 /\ returned' = NoReturn
                 ELSE fpc' = "done" /\ returned'.kind = "mock"]_vars

\* C26 witness: the first source answered a document with rows but no quote;
\* the attempt counted as failed and the second source is being contacted.
C26_Witness ==
    /\ fkind = "market"
    /\ fpc = "awaitFetch"
    /\ fi = 1
    /\ Len(html) = 2
    /\ parseHTMLData(html) = << >>
    /\ outcomes = <<"failed", "pending">>

----------------------------------------------------------------------------
(* Further properties of bucketing (specification Spec) *)

\* C25: at every bucketed granularity each output point's timestamp is the
\* minimum timestamp of the input points of its bucket, not the aligned bucket
\* start, and its displayDate is the ISO rendering of that timestamp (its
\* date part at 1day).
C25_TimestampIsEarliest ==
    (pc = "done" /\ interval # "1min") =>
        LET keysIn == KeysOf(chartData, interval, tz)
            keysOut == KeysOf(aggregatedData, interval, tz)
        IN  /\ \A k \in 1..Len(aggregatedData) :
                 /\ \E i \in 1..Len(chartData) :
                      /\ keysIn[i] = keysOut[k]
                      /\ chartData[i].timestamp = aggregatedData[k].timestamp
                 /\ \A i \in 1..Len(chartData) :
                      keysIn[i] = keysOut[k]
                        => aggregatedData[k].timestamp <= chartData[i].timestamp
                 /\ aggregatedData[k].date
                      = IF interval = "1day"
                        THEN [iso |-> "date", v |-> UtcDay(aggregatedData[k].timestamp)]
                        ELSE [iso |-> "datetime", v |-> aggregatedData[k].timestamp]

\* C25 witness: at 5min the points of 00:00:00, 00:02:00 and 00:33:20
\* were reduced; the second output point keeps 00:33:20, not the bucket start
\* 00:30:00.
C25_Witness ==
    /\ pc = "done"
    /\ round = 0
    /\ interval = "5min"
    /\ Len(chartData) = 3
    /\ Len(aggregatedData) = 2
    /\ aggregatedData[1].timestamp = 0
    /\ aggregatedData[2].timestamp = 2000000
    /\ chartData[2].timestamp = 120000

\* C27: at every bucketed granularity no two output points belong to the same
\* bucket: before truncation there are as many output points as distinct
\* bucket keys among the valid input points, and the output timestamps are
\* strictly increasing.
C27_OnePointPerBucket ==
    (pc = "done" /\ interval # "1min") =>
        LET keysIn == KeysOf(chartData, interval, tz)
            keysOut == KeysOf(aggregatedData, interval, tz)
        IN  /\ Len(aggregatedData) = Cardinality({keysIn[i] : i \in 1..Len(chartData)})
            /\ Len(aggregatedData) = Cardinality({keysOut[k] : k \in 1..Len(aggregatedData)})
            /\ \A k \in 1..(Len(aggregatedData) - 1) :
                 aggregatedData[k].timestamp < aggregatedData[k + 1].timestamp

\* C27 witness: three valid points, two of them with the same timestamp, gave
\* two output points at 15min.
C27_Witness ==
    /\ pc = "done"
    /\ round = 0
    /\ interval = "15min"
    /\ Len(chartData) = 3
    /\ chartData[1].timestamp = chartData[2].timestamp
    /\ Len(aggregatedData) = 2

----------------------------------------------------------------------------
(* Properties of the detail view (specification DetailSpec) *)

\* C28: after any number of interval changes, once all in-flight time-series
\* fetches have completed in any order, the series held in stockData is the
\* one fetched for the most recently selected interval; a late response for
\* an earlier interval never overwrites the result for the current one.
C28_SeriesIsForCurrentInterval ==
    /\ []((vpc = "mounted" /\ pending = {} /\ stockData.present)
            => stockData.interval = chartInterval)
    /\ [][stockData' # stockData => stockData'.interval = chartInterval']_vars

\* C28 witness: the interval was changed twice, the four fetches have
\* completed, and the series held is the one for the last selection.
C28_Witness ==
    /\ clicks = 2
    /\ pending = {}
    /\ chartInterval = "1day"
    /\ stockData = [present |-> TRUE, interval |-> "1day", empty |-> FALSE]
    /\ ~loading /\ ~chartLoading

\* C29: whenever the chart is displayed, the interval highlighted in
\* StockChart (selectedInterval) equals StockDetail's chartInterval, also
\* after an interval change and the loading states it triggers.
C29_HighlightMatchesInterval ==
    ChartDisplayed(loading, chartLoading, error, stockData)
        => selectedInterval = chartInterval

====
